---- MODULE Spec2Model ----
(***************************************************************************)
(* Model of the primary-key benchmark harness: cmd/benchmark_ids/main.go   *)
(* (flag handling, validation, connection set-up, reporting) and           *)
(* internal/bench (ValidateConfig, RunAll, the schema reset and the five   *)
(* benchmark variants).  One thread of control; every database call is a   *)
(* step that the database may answer with a value or with an error.        *)
(***************************************************************************)
EXTENDS Integers, Sequences, FiniteSets, TLC

\* ---------------------------------------------------------------- bounds
\* largest value given to --rows
MaxRows == 4
\* largest value given to --lookups
MaxLookups == 2
\* number of distinct values the random UUID generator can produce
\* (a run with more rows than that ends with a duplicate key in its first
\* UUID variant)
MaxUUID == 2

\* ------------------------------------------------------- program constants
\* LIMIT of the ordered scan of the UUID variants
ScanLimit == 10000

\* ------------------------------------------------------------- error values
\* An error is the sequence of its message parts; the nil error is empty.
NoError == <<>>
\* whatever error the driver surfaces for a failed call
DriverError == <<"driver error">>
\* ctx.Err() once the overall deadline has passed
DeadlineExceeded == <<"context deadline exceeded">>
\* fmt.Errorf("<prefix>: %w", err)
Wrap(prefix, err) == <<prefix>> \o err

\* ------------------------------------------------------------ configuration
\* DefaultConfig with no lookups
DefaultConfig_noLookups ==
  [ Rows |-> 100000, Lookups |-> 0,
    MySQLHost |-> "127.0.0.1", MySQLPort |-> 3306, MySQLUser |-> "bench",
    MySQLPassword |-> "bench", MySQLDB |-> "idbench",
    PGHost |-> "127.0.0.1", PGPort |-> 5432, PGUser |-> "bench",
    PGPassword |-> "bench", PGDB |-> "idbench" ]

DefaultConfig ==
  [ Rows |-> 100000, Lookups |-> 20000,
    MySQLHost |-> "127.0.0.1", MySQLPort |-> 3306, MySQLUser |-> "bench",
    MySQLPassword |-> "bench", MySQLDB |-> "idbench",
    PGHost |-> "127.0.0.1", PGPort |-> 5432, PGUser |-> "bench",
    PGPassword |-> "bench", PGDB |-> "idbench" ]

\* RegisterFlags + flag.Parse: every field of the defaults can be overridden.
\* The connection fields are either left at their defaults or all overridden
\* with values no server answers to.
RegisterFlags(c, rows, lookups, override) ==
  IF override
  THEN [ Rows |-> rows, Lookups |-> lookups,
         MySQLHost |-> "", MySQLPort |-> -1, MySQLUser |-> "",
         MySQLPassword |-> "", MySQLDB |-> "",
         PGHost |-> "", PGPort |-> 0, PGUser |-> "",
         PGPassword |-> "", PGDB |-> "" ]
  ELSE [c EXCEPT !.Rows = rows, !.Lookups = lookups]

\* whether the connection fields of the configuration name a server that can
\* answer: a malformed value surfaces as a connection failure
ReachableMySQL(c) == c.MySQLHost # "" /\ c.MySQLPort \in 1..65535
ReachablePG(c)    == c.PGHost # "" /\ c.PGPort \in 1..65535

\* ValidateConfig without the test of lookups
ValidateConfig_rowsOnly(c) ==
  IF c.Rows <= 0 THEN <<"rows must be > 0">>
  ELSE NoError

\* ValidateConfig with the lookups test written < 0
ValidateConfig_strictLess(c) ==
  IF c.Rows <= 0 THEN <<"rows must be > 0">>
  ELSE IF c.Lookups < 0 THEN <<"lookups must be > 0">>
  ELSE NoError

ValidateConfig(c) ==
  IF c.Rows <= 0 THEN <<"rows must be > 0">>
  ELSE IF c.Lookups <= 0 THEN <<"lookups must be > 0">>
  ELSE NoError

\* ------------------------------------------------------------------ schema
\* RunAll with the two MySQL UUID variants run in the other order
Variants_swapped ==
  << [DB |-> "mysql",    Table |-> "bench_auto",      key |-> "auto", conn |-> "mysql"],
     [DB |-> "mysql",    Table |-> "bench_uuid_bin",  key |-> "uuid", conn |-> "mysql"],
     [DB |-> "mysql",    Table |-> "bench_uuid_char", key |-> "uuid", conn |-> "mysql"],
     [DB |-> "postgres", Table |-> "bench_auto",      key |-> "auto", conn |-> "postgres"],
     [DB |-> "postgres", Table |-> "bench_uuid",      key |-> "uuid", conn |-> "postgres"] >>

\* RunAll handing mysqlDB to benchPGAuto
Variants_wrongHandle ==
  << [DB |-> "mysql",    Table |-> "bench_auto",      key |-> "auto", conn |-> "mysql"],
     [DB |-> "mysql",    Table |-> "bench_uuid_char", key |-> "uuid", conn |-> "mysql"],
     [DB |-> "mysql",    Table |-> "bench_uuid_bin",  key |-> "uuid", conn |-> "mysql"],
     [DB |-> "postgres", Table |-> "bench_auto",      key |-> "auto", conn |-> "mysql"],
     [DB |-> "postgres", Table |-> "bench_uuid",      key |-> "uuid", conn |-> "postgres"] >>

\* the five benchmark variants in the order RunAll runs them: the DB and Table
\* of the Result, the kind of key, and the handle RunAll passes (mysqlDB, pgDB)
Variants ==
  << [DB |-> "mysql",    Table |-> "bench_auto",      key |-> "auto", conn |-> "mysql"],
     [DB |-> "mysql",    Table |-> "bench_uuid_char", key |-> "uuid", conn |-> "mysql"],
     [DB |-> "mysql",    Table |-> "bench_uuid_bin",  key |-> "uuid", conn |-> "mysql"],
     [DB |-> "postgres", Table |-> "bench_auto",      key |-> "auto", conn |-> "postgres"],
     [DB |-> "postgres", Table |-> "bench_uuid",      key |-> "uuid", conn |-> "postgres"] >>

\* the tables the two schema resets create, by engine
TableIds ==
  { <<"mysql", "bench_auto">>, <<"mysql", "bench_uuid_char">>,
    <<"mysql", "bench_uuid_bin">>, <<"postgres", "bench_auto">>,
    <<"postgres", "bench_uuid">> }

setupMySQLStmts ==
  << [op |-> "drop",   table |-> "bench_auto"],
     [op |-> "drop",   table |-> "bench_uuid_char"],
     [op |-> "drop",   table |-> "bench_uuid_bin"],
     [op |-> "create", table |-> "bench_auto"],
     [op |-> "create", table |-> "bench_uuid_char"],
     [op |-> "create", table |-> "bench_uuid_bin"] >>

\* setupPostgres creating bench_auto before the tables are dropped
setupPostgresStmts_createFirst ==
  << [op |-> "create", table |-> "bench_auto"],
     [op |-> "drop",   table |-> "bench_auto"],
     [op |-> "drop",   table |-> "bench_uuid"],
     [op |-> "create", table |-> "bench_uuid"] >>

setupPostgresStmts ==
  << [op |-> "drop",   table |-> "bench_auto"],
     [op |-> "drop",   table |-> "bench_uuid"],
     [op |-> "create", table |-> "bench_auto"],
     [op |-> "create", table |-> "bench_uuid"] >>

\* a table of a database: whether it exists, the primary keys of its rows and
\* the next value of its AUTO_INCREMENT / BIGSERIAL counter
NoTable    == [exists |-> FALSE, keys |-> {}, nextId |-> 1]
EmptyTable == [exists |-> TRUE,  keys |-> {}, nextId |-> 1]
\* a table left behind by an earlier run
StaleTable == [exists |-> TRUE,  keys |-> {1}, nextId |-> 2]

\* the values uuid.New() / uuid.NewString() can return
UUIDs == 1..MaxUUID
\* the zero value of the elements of make([]T, rows)
ZeroKey == 0

RECURSIVE SortedSeq(_)
\* ORDER BY id: the keys of a table in ascending order
SortedSeq(S) ==
  IF S = {} THEN <<>>
  ELSE LET m == CHOOSE x \in S : \A y \in S : x <= y
       IN  <<m>> \o SortedSeq(S \ {m})

\* s[:n] of a slice s with len(s) > n panics when n is negative
SliceOutOfRange(s, n) == n < 0

\* the sample without the cut to lookups keys
Sample_uncut(s, lookups) == s

\* sample := ids; if len(sample) > lookups { sample = sample[:lookups] }
Sample(s, lookups) ==
  IF Len(s) > lookups THEN SubSeq(s, 1, lookups) ELSE s

\* Durations are whole nanoseconds (time.Since(start)); a Result field holds
\* their value in seconds.  In a run every database call of a timed phase is
\* taken to last one millisecond.
\* the Result a variant returns
Result(k, rows, smp) ==
  [ DB |-> Variants[k].DB, Table |-> Variants[k].Table,
    InsertRows |-> rows, InsertSeconds |-> 1000000 * rows,
    PointLookupCount |-> Len(smp), PointSeconds |-> 1000000 * Len(smp),
    RangeSeconds |-> 1000000 ]

RECURSIVE PadLeft(_, _)
\* the digits of a number padded with zeros on the left to the given width
PadLeft(str, width) ==
  IF Len(str) >= width THEN str ELSE PadLeft("0" \o str, width)

\* fmt.Sprintf("%.6f", seconds): the value rounded to microseconds
Fmt6(ns) ==
  LET us == (ns + 500) \div 1000
  IN  ToString(us \div 1000000) \o "." \o PadLeft(ToString(us % 1000000), 6)

\* the text one record adds to the buffer, as its fields and separators
ResultLine(r) ==
  << r.DB, ",", r.Table, ",", ToString(r.InsertRows), ",",
     Fmt6(r.InsertSeconds), ",", ToString(r.PointLookupCount), ",",
     Fmt6(r.PointSeconds), ",", Fmt6(r.RangeSeconds), "\n" >>

RECURSIVE ResultLines(_)
ResultLines(rs) ==
  IF rs = <<>> THEN <<>> ELSE ResultLine(Head(rs)) \o ResultLines(Tail(rs))

\* strings.TrimSuffix on a text given as its pieces
\* strings.TrimSuffix leaving the final newline in place
TrimSuffix_keep(text, suffix) == text

TrimSuffix(text, suffix) ==
  IF Len(text) > 0 /\ text[Len(text)] = suffix
  THEN SubSeq(text, 1, Len(text) - 1) ELSE text

\* FormatResults: banner, header, one line per record in input order; the
\* text is the sequence of its pieces, line ends included
FormatResults(rs) ==
  TrimSuffix(
    << "=== Benchmark Results ===", "\n",
       "db,table,insert_rows,insert_sec,point_lookups,point_sec,range_or_orderby_sec",
       "\n" >> \o ResultLines(rs),
    "\n")

\* ------------------------------------------------------------------- state
VARIABLES
  cfg,       \* the Config after flag parsing
  pc,        \* position of the single thread of control
  mysqlDB,   \* the *sql.DB of MySQL: state and number of Close calls
  pgDB,      \* the *sql.DB of PostgreSQL
  ctxDone,   \* the deferred cancel() of the overall context has run
  ctxExpired,\* the 60 minute deadline of the overall context has passed
  tables,    \* the benchmark tables of the two databases
  calls,     \* every database call issued so far, in order
  stmtIdx,   \* index into stmts of the running setup function
  v,         \* the variant being benchmarked (index into Variants)
  i,         \* loop counter of the running insert / lookup loop
  ids,       \* ids of the running variant
  sample,    \* sample of the running variant
  scanned,   \* number of rows the last rowsRes loop has read
  id,        \* the key of the running iteration of the insert / lookup loop
  results,   \* RunAll's results slice
  ret,       \* what RunAll returned
  stdout,    \* lines written to standard output
  stderr,    \* lines written to standard error
  exitCode,  \* -1 while running, else the process exit status
  call,      \* a library function applied on its own: name, argument, result
  cb         \* a ChunkBounds call in progress

vars == << cfg, pc, mysqlDB, pgDB, ctxDone, ctxExpired, tables, calls, stmtIdx,
           v, i, ids, sample, scanned, id, results, ret, stdout, stderr, exitCode,
           call, cb >>

libVars    == << call, cb >>

handleVars == << mysqlDB, pgDB, ctxDone >>
benchVars  == << stmtIdx, v, i, ids, sample, scanned, id, results, ret >>
ioVars     == << stdout, stderr, exitCode >>

NilHandle == [state |-> "nil", closes |-> 0]

\* no library function is applied on its own while main runs
NoCall == [fn |-> "none", arg |-> <<>>, out |-> <<>>, done |-> FALSE]
NoChunkBounds == [pc |-> "idle", total |-> 0, chunk |-> 0, i |-> 0, out |-> <<>>]

Init ==
  /\ \E rows \in -1..MaxRows, lookups \in -1..MaxLookups, override \in BOOLEAN :
        cfg = RegisterFlags(DefaultConfig, rows, lookups, override)
  /\ pc = "validate"
  /\ mysqlDB = NilHandle
  /\ pgDB = NilHandle
  /\ ctxDone = FALSE
  /\ ctxExpired = FALSE
  /\ \E stale \in BOOLEAN :
        tables = [t \in TableIds |-> IF stale THEN StaleTable ELSE NoTable]
  /\ calls = <<>>
  /\ stmtIdx = 0
  /\ v = 0
  /\ i = 0
  /\ ids = <<>>
  /\ sample = <<>>
  /\ scanned = 0
  /\ id = ZeroKey
  /\ results = <<>>
  /\ ret = [results |-> <<>>, err |-> NoError]
  /\ stdout = <<>>
  /\ stderr = <<>>
  /\ exitCode = -1
  /\ call = NoCall
  /\ cb = NoChunkBounds

\* a database call as recorded in calls
Call(db, op, table, arg, ok) ==
  [db |-> db, op |-> op, table |-> table, arg |-> arg, ok |-> ok]

\* the error of a failed call that takes ctx
CallError == IF ctxExpired THEN DeadlineExceeded ELSE DriverError

\* fmt.Fprintln(os.Stderr, ...); os.Exit(1): the process ends at once, the
\* deferred calls of main do not run
ExitWith(line) ==
  /\ stderr' = Append(stderr, line)
  /\ exitCode' = 1
  /\ pc' = "exited"
  /\ UNCHANGED stdout

\* a run-time panic: the deferred calls of main run while the stack unwinds,
\* then the process prints the panic and ends with status 2
Panic(msg) ==
  /\ stderr' = Append(stderr, <<"panic: runtime error: " \o msg>>)
  /\ exitCode' = 2
  /\ pc' = "exited"
  /\ ctxDone' = TRUE
  /\ pgDB' = [state |-> "closed", closes |-> pgDB.closes + 1]
  /\ mysqlDB' = [state |-> "closed", closes |-> mysqlDB.closes + 1]
  /\ UNCHANGED stdout

\* ------------------------------------------------------------------- main
\* mainValidate reporting the error without ending the process
mainValidate_noExit ==
  /\ pc = "validate"
  /\ pc' = "open_mysql"
  /\ IF ValidateConfig(cfg) # NoError
     THEN stderr' = Append(stderr, ValidateConfig(cfg))
     ELSE UNCHANGED stderr
  /\ UNCHANGED << cfg, ctxExpired, libVars, handleVars, tables, calls, benchVars, stdout, exitCode >>

mainValidate ==
  /\ pc = "validate"
  /\ IF ValidateConfig(cfg) # NoError
     THEN ExitWith(ValidateConfig(cfg))
     ELSE /\ pc' = "open_mysql"
          /\ UNCHANGED ioVars
  /\ UNCHANGED << cfg, ctxExpired, libVars, handleVars, tables, calls, benchVars >>

mainOpenMySQL ==
  /\ pc = "open_mysql"
  /\ \E ok \in BOOLEAN :
       IF ok
       THEN /\ mysqlDB' = [mysqlDB EXCEPT !.state = "open"]
            /\ pc' = "open_pg"
            /\ UNCHANGED ioVars
       ELSE /\ ExitWith(DriverError)
            /\ UNCHANGED mysqlDB
  /\ UNCHANGED << cfg, ctxExpired, libVars, pgDB, ctxDone, tables, calls, benchVars >>

mainOpenPG ==
  /\ pc = "open_pg"
  /\ \E ok \in BOOLEAN :
       IF ok
       THEN /\ pgDB' = [pgDB EXCEPT !.state = "open"]
            /\ pc' = "ping_mysql"
            /\ UNCHANGED ioVars
       ELSE /\ ExitWith(DriverError)
            /\ UNCHANGED pgDB
  /\ UNCHANGED << cfg, ctxExpired, libVars, mysqlDB, ctxDone, tables, calls, benchVars >>

mainPingMySQL ==
  /\ pc = "ping_mysql"
  /\ \E answer \in BOOLEAN :
       LET ok == answer /\ ~ctxExpired /\ ReachableMySQL(cfg) IN
       /\ calls' = Append(calls, Call("mysql", "ping", "", <<>>, ok))
       /\ IF ok
          THEN /\ pc' = "ping_pg"
               /\ UNCHANGED ioVars
          ELSE ExitWith(<<"mysql ping failed:">> \o CallError)
  /\ UNCHANGED << cfg, ctxExpired, libVars, handleVars, tables, benchVars >>

\* mainPingPG reporting a failed ping without ending the process
mainPingPG_noExit ==
  /\ pc = "ping_pg"
  /\ \E answer \in BOOLEAN :
       LET ok == answer /\ ~ctxExpired /\ ReachablePG(cfg) IN
       /\ calls' = Append(calls, Call("postgres", "ping", "", <<>>, ok))
       /\ pc' = "setupMySQL"
       /\ stmtIdx' = 1
       /\ IF ok
          THEN UNCHANGED stderr
          ELSE stderr' = Append(stderr, <<"postgres ping failed:">> \o CallError)
  /\ UNCHANGED << cfg, ctxExpired, libVars, handleVars, tables, v, i, ids, sample, scanned, id, results, ret,
                  stdout, exitCode >>

mainPingPG ==
  /\ pc = "ping_pg"
  /\ \E answer \in BOOLEAN :
       LET ok == answer /\ ~ctxExpired /\ ReachablePG(cfg) IN
       /\ calls' = Append(calls, Call("postgres", "ping", "", <<>>, ok))
       /\ IF ok
          THEN /\ pc' = "setupMySQL"
               /\ stmtIdx' = 1
               /\ UNCHANGED ioVars
          ELSE /\ ExitWith(<<"postgres ping failed:">> \o CallError)
               /\ UNCHANGED stmtIdx
  /\ UNCHANGED << cfg, ctxExpired, libVars, handleVars, tables, v, i, ids, sample, scanned, id, results, ret >>

\* mainReport printing the records gathered so far before it reports the error
mainReport_partial ==
  /\ pc = "returned"
  /\ IF ret.err # NoError
     THEN /\ stdout' = stdout \o FormatResults(results) \o <<"\n">>
          /\ stderr' = Append(stderr, <<"benchmark failed:">> \o ret.err)
          /\ exitCode' = 1
          /\ pc' = "exited"
     ELSE /\ stdout' = stdout \o FormatResults(ret.results) \o <<"\n">>
          /\ pc' = "main_return"
          /\ UNCHANGED << stderr, exitCode >>
  /\ UNCHANGED << cfg, ctxExpired, libVars, handleVars, tables, calls, benchVars >>

\* results, err := bench.RunAll(...) has returned
mainReport ==
  /\ pc = "returned"
  /\ IF ret.err # NoError
     THEN ExitWith(<<"benchmark failed:">> \o ret.err)
     ELSE /\ stdout' = stdout \o FormatResults(ret.results) \o <<"\n">>
          /\ pc' = "main_return"
          /\ UNCHANGED << stderr, exitCode >>
  /\ UNCHANGED << cfg, ctxExpired, libVars, handleVars, tables, calls, benchVars >>

\* main never coming back from its deferred calls
mainReturn_blocked ==
  /\ pc = "main_return"
  /\ UNCHANGED vars

\* main returns: the deferred calls run in reverse order of registration
mainReturn ==
  /\ pc = "main_return"
  /\ ctxDone' = TRUE
  /\ pgDB' = [state |-> "closed", closes |-> pgDB.closes + 1]
  /\ mysqlDB' = [state |-> "closed", closes |-> mysqlDB.closes + 1]
  /\ exitCode' = 0
  /\ pc' = "exited"
  /\ UNCHANGED << cfg, ctxExpired, libVars, tables, calls, benchVars, stdout, stderr >>

\* the timer of context.WithTimeout fires while the pings or RunAll run
ctxDeadline ==
  /\ pc \in {"ping_mysql", "ping_pg", "setupMySQL", "setupPostgres",
              "prepare_insert", "insert", "query_ids", "read_ids",
              "prepare_select", "lookup", "range", "scan_query", "scan_read"}
  /\ ~ctxExpired
  /\ ctxExpired' = TRUE
  /\ UNCHANGED << cfg, libVars, pc, handleVars, tables, calls, benchVars, ioVars >>

main ==
  \/ ctxDeadline
  \/ mainValidate \/ mainOpenMySQL \/ mainOpenPG
  \/ mainPingMySQL \/ mainPingPG \/ mainReport \/ mainReturn

\* ------------------------------------------------------ the database server
\* whether the server accepts a DROP TABLE IF EXISTS / CREATE TABLE statement
Accepts(tb, db, stmt) ==
  stmt.op = "drop" \/ ~tb[<<db, stmt.table>>].exists

\* the tables after the server has executed the statement
Exec(tb, db, stmt) ==
  [tb EXCEPT ![<<db, stmt.table>>] =
     IF stmt.op = "drop" THEN NoTable ELSE EmptyTable]

\* return nil, err / return Result{}, err propagated by RunAll
Fail(e) ==
  /\ ret' = [results |-> <<>>, err |-> e]
  /\ pc' = "returned"

\* ----------------------------------------------------------- schema reset
setupMySQL ==
  /\ pc = "setupMySQL"
  /\ LET stmt == setupMySQLStmts[stmtIdx] IN
     \E ok \in BOOLEAN :
       LET done == ok /\ ~ctxExpired /\ Accepts(tables, "mysql", stmt) IN
       /\ calls' = Append(calls, Call("mysql", stmt.op, stmt.table, <<>>, done))
       /\ IF done
          THEN /\ tables' = Exec(tables, "mysql", stmt)
               /\ IF stmtIdx < Len(setupMySQLStmts)
                  THEN stmtIdx' = stmtIdx + 1 /\ pc' = "setupMySQL"
                  ELSE stmtIdx' = 1 /\ pc' = "setupPostgres"
               /\ UNCHANGED ret
          ELSE /\ Fail(Wrap("mysql setup failed", CallError))
               /\ UNCHANGED << tables, stmtIdx >>
  /\ UNCHANGED << cfg, ctxExpired, libVars, handleVars, v, i, ids, sample, scanned, id, results, ioVars >>

\* setupPostgres going on with the next statement after a failed one
setupPostgres_continue ==
  /\ pc = "setupPostgres"
  /\ LET stmt == setupPostgresStmts[stmtIdx] IN
     \E ok \in BOOLEAN :
       LET done == ok /\ ~ctxExpired /\ Accepts(tables, "postgres", stmt) IN
       /\ calls' = Append(calls, Call("postgres", stmt.op, stmt.table, <<>>, done))
       /\ tables' = IF done THEN Exec(tables, "postgres", stmt) ELSE tables
       /\ IF stmtIdx < Len(setupPostgresStmts)
          THEN stmtIdx' = stmtIdx + 1 /\ pc' = "setupPostgres" /\ v' = v
          ELSE stmtIdx' = stmtIdx /\ pc' = "prepare_insert" /\ v' = 1
       /\ UNCHANGED ret
  /\ UNCHANGED << cfg, ctxExpired, libVars, handleVars, i, ids, sample, scanned, id, results, ioVars >>

setupPostgres ==
  /\ pc = "setupPostgres"
  /\ LET stmt == setupPostgresStmts[stmtIdx] IN
     \E ok \in BOOLEAN :
       LET done == ok /\ ~ctxExpired /\ Accepts(tables, "postgres", stmt) IN
       /\ calls' = Append(calls, Call("postgres", stmt.op, stmt.table, <<>>, done))
       /\ IF done
          THEN /\ tables' = Exec(tables, "postgres", stmt)
               /\ IF stmtIdx < Len(setupPostgresStmts)
                  THEN stmtIdx' = stmtIdx + 1 /\ pc' = "setupPostgres" /\ v' = v
                  ELSE stmtIdx' = stmtIdx /\ pc' = "prepare_insert" /\ v' = 1
               /\ UNCHANGED ret
          ELSE /\ Fail(Wrap("postgres setup failed", CallError))
               /\ UNCHANGED << tables, stmtIdx, v >>
  /\ UNCHANGED << cfg, ctxExpired, libVars, handleVars, i, ids, sample, scanned, id, results, ioVars >>

\* ------------------------------------------------------ benchmark variants
\* the table of variant k
Tab(k) == <<Variants[k].conn, Variants[k].Table>>

IsAuto(k) == Variants[k].key = "auto"

AfterInsert(k) == IF IsAuto(k) THEN "query_ids" ELSE "prepare_select"
AfterLookup(k) == IF IsAuto(k) THEN "range" ELSE "scan_query"

\* return Result{...}, nil and RunAll's results = append(results, r); the
\* locals of the variant's function end with its return
Finish(k) ==
  /\ results' = Append(results, Result(k, cfg.Rows, sample))
  /\ i' = 0
  /\ ids' = <<>>
  /\ sample' = <<>>
  /\ scanned' = 0
  /\ id' = ZeroKey
  /\ IF k < Len(Variants)
     THEN /\ v' = k + 1
          /\ pc' = "prepare_insert"
          /\ UNCHANGED ret
     ELSE /\ v' = v
          /\ pc' = "returned"
          /\ ret' = [results |-> results', err |-> NoError]

\* insertStmt, err := db.PrepareContext(ctx, "INSERT INTO ...")
benchPrepareInsert(k) ==
  /\ pc = "prepare_insert" /\ v = k
  /\ \E ok \in BOOLEAN :
       LET done == ok /\ ~ctxExpired /\ tables[Tab(k)].exists IN
       /\ calls' = Append(calls, Call(Variants[k].conn, "prepare_insert",
                                       Variants[k].Table, <<>>, done))
       /\ IF done
          THEN /\ ids' = IF IsAuto(k) THEN <<>>
                         ELSE [j \in 1..cfg.Rows |-> ZeroKey]
               /\ i' = 0
               /\ pc' = IF 0 < cfg.Rows THEN "insert" ELSE AfterInsert(k)
               /\ UNCHANGED ret
          ELSE /\ Fail(CallError)
               /\ UNCHANGED << ids, i >>
  /\ UNCHANGED << cfg, ctxExpired, libVars, handleVars, tables, stmtIdx, v, sample, scanned, id, results, ioVars >>

\* the payload numbered from 1
Payload_fromOne(n) == "p-" \o ToString(n + 1)

\* fmt.Sprintf("p-%d", i)
Payload(n) == "p-" \o ToString(n)

\* the insert loop of a UUID variant without ids[i] = id
benchInsert_noRecord(k) ==
  /\ pc = "insert" /\ v = k
  /\ i < cfg.Rows
  /\ \E ok \in BOOLEAN, new \in (IF IsAuto(k) THEN {tables[Tab(k)].nextId} ELSE UUIDs) :
       LET t    == tables[Tab(k)]
           done == ok /\ ~ctxExpired /\ t.exists /\ new \notin t.keys
       IN
       /\ id' = IF IsAuto(k) THEN id ELSE new
       /\ ids' = ids
       /\ calls' = Append(calls, Call(Variants[k].conn, "insert",
                                       Variants[k].Table, <<i, Payload(i)>>, done))
       /\ IF done
          THEN /\ tables' = [tables EXCEPT ![Tab(k)] =
                               [t EXCEPT !.keys = t.keys \cup {new},
                                         !.nextId = IF IsAuto(k) THEN new + 1
                                                    ELSE t.nextId]]
               /\ i' = i + 1
               /\ pc' = IF i + 1 < cfg.Rows THEN "insert" ELSE AfterInsert(k)
               /\ UNCHANGED ret
          ELSE /\ Fail(CallError)
               /\ UNCHANGED << tables, i >>
  /\ UNCHANGED << cfg, ctxExpired, libVars, handleVars, stmtIdx, v, sample, scanned, results, ioVars >>

\* one iteration of the insert loop
benchInsert(k) ==
  /\ pc = "insert" /\ v = k
  /\ i < cfg.Rows
  /\ \E ok \in BOOLEAN, new \in (IF IsAuto(k) THEN {tables[Tab(k)].nextId} ELSE UUIDs) :
       LET t    == tables[Tab(k)]
           done == ok /\ ~ctxExpired /\ t.exists /\ new \notin t.keys
       IN
       /\ id' = IF IsAuto(k) THEN id ELSE new
       /\ ids' = IF IsAuto(k) THEN ids ELSE [ids EXCEPT ![i + 1] = new]
       /\ calls' = Append(calls, Call(Variants[k].conn, "insert",
                                       Variants[k].Table, <<i, Payload(i)>>, done))
       /\ IF done
          THEN /\ tables' = [tables EXCEPT ![Tab(k)] =
                               [t EXCEPT !.keys = t.keys \cup {new},
                                         !.nextId = IF IsAuto(k) THEN new + 1
                                                    ELSE t.nextId]]
               /\ i' = i + 1
               /\ pc' = IF i + 1 < cfg.Rows THEN "insert" ELSE AfterInsert(k)
               /\ UNCHANGED ret
          ELSE /\ Fail(CallError)
               /\ UNCHANGED << tables, i >>
  /\ UNCHANGED << cfg, ctxExpired, libVars, handleVars, stmtIdx, v, sample, scanned, results, ioVars >>

\* rowsRes, err := db.QueryContext(ctx, "SELECT id FROM bench_auto ORDER BY id")
benchQueryIds(k) ==
  /\ pc = "query_ids" /\ v = k
  /\ \E ok \in BOOLEAN :
       LET done == ok /\ ~ctxExpired /\ tables[Tab(k)].exists IN
       /\ calls' = Append(calls, Call(Variants[k].conn, "select_ids",
                                       Variants[k].Table, <<>>, done))
       /\ IF done
          THEN /\ ids' = <<>>
               /\ pc' = "read_ids"
               /\ UNCHANGED ret
          ELSE /\ Fail(CallError)
               /\ UNCHANGED ids
  /\ UNCHANGED << cfg, ctxExpired, libVars, handleVars, tables, stmtIdx, v, i, sample, scanned, id, results, ioVars >>

\* for rowsRes.Next() { Scan; append }; rowsRes.Close().  Next returns false
\* at the end of the rows and also when fetching a row fails; rowsRes.Err()
\* is not consulted, so a failed fetch ends the loop like the end of the rows.
benchReadIds(k) ==
  /\ pc = "read_ids" /\ v = k
  /\ LET all == SortedSeq(tables[Tab(k)].keys) IN
     \E got \in 0..Len(all), outcome \in {"end", "scan_error"} :
       /\ outcome = "scan_error" => got < Len(all)
       /\ ids' = SubSeq(all, 1, got)
       /\ scanned' = got
       /\ calls' = Append(calls, Call(Variants[k].conn, "fetch", Variants[k].Table,
                                       <<>>, outcome = "end" /\ got = Len(all)))
       /\ IF outcome = "end"
          THEN pc' = "prepare_select" /\ UNCHANGED ret
          ELSE Fail(CallError)
  /\ UNCHANGED << cfg, ctxExpired, libVars, handleVars, tables, stmtIdx, v, i, sample, id, results, ioVars >>

\* the sample is cut, then selectStmt, err := db.PrepareContext(ctx, "SELECT payload ...")
benchPrepareSelect(k) ==
  /\ pc = "prepare_select" /\ v = k
  /\ IF Len(ids) > cfg.Lookups /\ SliceOutOfRange(ids, cfg.Lookups)
     THEN /\ Panic("slice bounds out of range")
          /\ UNCHANGED << sample, calls, i, ret >>
     ELSE /\ sample' = Sample(ids, cfg.Lookups)
          /\ \E ok \in BOOLEAN :
               LET done == ok /\ ~ctxExpired /\ tables[Tab(k)].exists IN
               /\ calls' = Append(calls, Call(Variants[k].conn, "prepare_select",
                                               Variants[k].Table, <<>>, done))
               /\ IF done
                  THEN /\ i' = 0
                       /\ pc' = IF 0 < Len(sample') THEN "lookup" ELSE AfterLookup(k)
                       /\ UNCHANGED ret
                  ELSE /\ Fail(CallError)
                       /\ UNCHANGED i
          /\ UNCHANGED << handleVars, ioVars >>
  /\ UNCHANGED << cfg, ctxExpired, libVars, tables, stmtIdx, v, ids, scanned, id, results >>

\* one iteration of the point-lookup loop; a key with no row gives sql.ErrNoRows
benchLookup(k) ==
  /\ pc = "lookup" /\ v = k
  /\ i < Len(sample)
  /\ \E ok \in BOOLEAN :
       LET t    == tables[Tab(k)]
           done == ok /\ ~ctxExpired /\ t.exists /\ sample[i + 1] \in t.keys
       IN
       /\ id' = sample[i + 1]
       /\ calls' = Append(calls, Call(Variants[k].conn, "lookup",
                                       Variants[k].Table, <<i>>, done))
       /\ IF done
          THEN /\ i' = i + 1
               /\ pc' = IF i + 1 < Len(sample) THEN "lookup" ELSE AfterLookup(k)
               /\ UNCHANGED ret
          ELSE /\ Fail(CallError)
               /\ UNCHANGED i
  /\ UNCHANGED << cfg, ctxExpired, libVars, handleVars, tables, stmtIdx, v, ids, sample, scanned, results, ioVars >>

\* the lower bound taken from the first key
RangeLo_first(s) == IF Len(s) > 0 THEN s[1] ELSE 0

\* lower and upper bound of the COUNT(*) ... BETWEEN query
RangeLo(s) == IF Len(s) > 0 THEN s[(Len(s) \div 4) + 1] ELSE 0
RangeHi(s) == IF Len(s) > 0 THEN s[((Len(s) * 3) \div 4) + 1] ELSE 0

\* SELECT COUNT(*) FROM bench_auto WHERE id BETWEEN lo AND hi
benchRange(k) ==
  /\ pc = "range" /\ v = k
  /\ \E ok \in BOOLEAN :
       LET t    == tables[Tab(k)]
           lo   == RangeLo(ids)
           hi   == RangeHi(ids)
           c    == Cardinality({x \in t.keys : lo <= x /\ x <= hi})
           done == ok /\ ~ctxExpired /\ t.exists
       IN
       /\ calls' = Append(calls, Call(Variants[k].conn, "count",
                                       Variants[k].Table, <<lo, hi, c>>, done))
       /\ IF done
          THEN Finish(k)
          ELSE Fail(CallError) /\ UNCHANGED << v, i, ids, sample, scanned, id, results >>
  /\ UNCHANGED << cfg, ctxExpired, libVars, handleVars, tables, stmtIdx, ioVars >>

\* rowsRes, err := db.QueryContext(ctx, "SELECT id FROM ... ORDER BY id LIMIT 10000")
benchScanQuery(k) ==
  /\ pc = "scan_query" /\ v = k
  /\ \E ok \in BOOLEAN :
       LET done == ok /\ ~ctxExpired /\ tables[Tab(k)].exists IN
       /\ calls' = Append(calls, Call(Variants[k].conn, "scan",
                                       Variants[k].Table, <<>>, done))
       /\ IF done
          THEN pc' = "scan_read" /\ UNCHANGED ret
          ELSE Fail(CallError)
  /\ UNCHANGED << cfg, ctxExpired, libVars, handleVars, tables, stmtIdx, v, i, ids, sample, scanned, id, results, ioVars >>

\* for rowsRes.Next() { Scan }; rowsRes.Close() of the ordered scan
benchScanRead(k) ==
  /\ pc = "scan_read" /\ v = k
  /\ LET n     == Cardinality(tables[Tab(k)].keys)
         avail == IF n > ScanLimit THEN ScanLimit ELSE n
     IN
     \E got \in 0..avail, outcome \in {"end", "scan_error"} :
       /\ outcome = "scan_error" => got < avail
       /\ calls' = Append(calls, Call(Variants[k].conn, "fetch", Variants[k].Table,
                                       <<>>, outcome = "end" /\ got = avail))
       /\ IF outcome = "end"
          THEN Finish(k)
          ELSE /\ Fail(CallError)
               /\ scanned' = got
               /\ UNCHANGED << v, i, ids, sample, id, results >>
  /\ UNCHANGED << cfg, ctxExpired, libVars, handleVars, tables, stmtIdx, ioVars >>

\* the body shared by the two auto-increment variants
benchAuto(k) ==
  \/ benchPrepareInsert(k) \/ benchInsert(k) \/ benchQueryIds(k)
  \/ benchReadIds(k) \/ benchPrepareSelect(k) \/ benchLookup(k) \/ benchRange(k)

\* the body shared by the three UUID variants
benchUUID(k) ==
  \/ benchPrepareInsert(k) \/ benchInsert(k) \/ benchPrepareSelect(k)
  \/ benchLookup(k) \/ benchScanQuery(k) \/ benchScanRead(k)

benchMySQLAuto     == benchAuto(1)
benchMySQLUUIDChar == benchUUID(2)
benchMySQLUUIDBin  == benchUUID(3)
benchPGAuto        == benchAuto(4)
benchPGUUID        == benchUUID(5)

RunAll ==
  \/ setupMySQL \/ setupPostgres
  \/ benchMySQLAuto \/ benchMySQLUUIDChar \/ benchMySQLUUIDBin
  \/ benchPGAuto \/ benchPGUUID

Next == main \/ RunAll

Spec == Init /\ [][Next]_vars

\* every call returns, with a value or an error: the single thread of control
\* takes its next step as long as it has one
FairSpec == Init /\ [][Next]_vars /\ WF_vars(Next)

TypeOK ==
  /\ pc \in {"validate", "open_mysql", "open_pg", "ping_mysql", "ping_pg",
             "setupMySQL", "setupPostgres", "prepare_insert", "insert",
             "query_ids", "read_ids", "prepare_select", "lookup", "range",
             "scan_query", "scan_read", "returned", "main_return", "exited"}
  /\ v \in 0..Len(Variants)
  /\ exitCode \in {-1, 0, 1, 2}

\* ------------------------------------------------------- library functions
\* bounds of the inputs the library functions are applied to
\* longest byte sequence given to BytesToUUID
MaxBytes == 18
\* largest increment between neighbouring bytes of an input
MaxStep == 2
\* largest small total given to ChunkBounds
MaxTotal == 10
\* largest small chunk given to ChunkBounds
MaxChunk == 5
\* width of int in bits (64 in the build, scaled down)
IntBits == 6

\* len(uuid.UUID{}) and the length make([]byte, 16) / BytesToUUID ask for
UUIDLen == 16

\* the first bytes inputs start with
ByteSeeds == {0, 1, 255}

\* a byte sequence of the given length
Bytes(n, seed, step) == [j \in 1..n |-> (seed + (j - 1) * step) % 256]

\* copy(dst, src): the first min(len(dst), len(src)) elements of src over dst
Copy(dst, src) ==
  [j \in 1..Len(dst) |-> IF j <= Len(src) THEN src[j] ELSE dst[j]]

\* uuid.Nil, and the content of make([]byte, 16)
NilUUID == [j \in 1..UUIDLen |-> 0]

\* UUIDToBytes without the copy
UUIDToBytes_noCopy(u) == NilUUID

UUIDToBytes(u) == Copy(NilUUID, u)

\* BytesToUUID accepting every input of at least 16 bytes
BytesToUUID_atLeast(b) ==
  IF Len(b) < UUIDLen
  THEN [u |-> NilUUID,
        err |-> <<"uuid bytes length must be 16, got " \o ToString(Len(b))>>]
  ELSE [u |-> Copy(NilUUID, b), err |-> NoError]

BytesToUUID(b) ==
  IF Len(b) # UUIDLen
  THEN [u |-> NilUUID,
        err |-> <<"uuid bytes length must be 16, got " \o ToString(Len(b))>>]
  ELSE [u |-> Copy(NilUUID, b), err |-> NoError]

\* the largest int, and int arithmetic wrapping around at the width of int
IntMax == 2 ^ (IntBits - 1) - 1
WrapInt(x) == ((x + 2 ^ (IntBits - 1)) % 2 ^ IntBits) - 2 ^ (IntBits - 1)
\* a / b of Go for b > 0: the quotient truncated towards zero
GoDiv(a, b) == IF a >= 0 THEN a \div b ELSE -((-a) \div b)

\* the durations (in nanoseconds) of the records given to FormatResults
Durations == {0, 1499, 10000000, 450000000, 1230000000}

\* the record of the formatting test: 1000 rows in 1.23 s, 500 lookups in
\* 0.45 s, range query in 0.01 s
TestResult ==
  [ DB |-> "mysql", Table |-> "bench_auto", InsertRows |-> 1000,
    InsertSeconds |-> 1230000000, PointLookupCount |-> 500,
    PointSeconds |-> 450000000, RangeSeconds |-> 10000000 ]

\* the state of main while a library function is applied on its own
mainVars == << cfg, pc, mysqlDB, pgDB, ctxDone, ctxExpired, tables, calls,
               stmtIdx, v, i, ids, sample, scanned, id, results, ret, stdout,
               stderr, exitCode >>

Pending(fn, arg) == [fn |-> fn, arg |-> arg, out |-> <<>>, done |-> FALSE]

LibInit ==
  /\ cfg = DefaultConfig
  /\ pc = "lib"
  /\ mysqlDB = NilHandle
  /\ pgDB = NilHandle
  /\ ctxDone = FALSE
  /\ ctxExpired = FALSE
  /\ tables = [t \in TableIds |-> NoTable]
  /\ calls = <<>>
  /\ stmtIdx = 0
  /\ v = 0
  /\ i = 0
  /\ ids = <<>>
  /\ sample = <<>>
  /\ scanned = 0
  /\ id = ZeroKey
  /\ results = <<>>
  /\ ret = [results |-> <<>>, err |-> NoError]
  /\ stdout = <<>>
  /\ stderr = <<>>
  /\ exitCode = -1
  /\ \/ /\ \E seed \in ByteSeeds, step \in 0..MaxStep :
             call = Pending("UUIDToBytes", Bytes(UUIDLen, seed, step))
        /\ cb = NoChunkBounds
     \/ /\ \E n \in 0..MaxBytes, seed \in ByteSeeds, step \in 0..MaxStep :
             call = Pending("BytesToUUID", Bytes(n, seed, step))
        /\ cb = NoChunkBounds
     \/ /\ \E n \in 0..2, k \in 1..Len(Variants), rows \in {0, 7, 1000},
              t1 \in Durations, t2 \in Durations :
             call = Pending("FormatResults",
                      [j \in 1..n |->
                         IF j = 1
                         THEN [ DB |-> Variants[k].DB, Table |-> Variants[k].Table,
                                InsertRows |-> rows, InsertSeconds |-> t1,
                                PointLookupCount |-> rows \div 2,
                                PointSeconds |-> t2, RangeSeconds |-> t1 ]
                         ELSE TestResult])
        /\ cb = NoChunkBounds
     \/ /\ call = Pending("DefaultConfig", <<>>)
        /\ cb = NoChunkBounds
     \/ /\ call = NoCall
        /\ \E total \in (-1..MaxTotal) \cup {IntMax - 1, IntMax, -IntMax - 1},
              chunk \in (-1..MaxChunk) \cup {IntMax - 1, IntMax, -IntMax - 1} :
             cb = [pc |-> "call", total |-> total, chunk |-> chunk,
                   i |-> 0, out |-> <<>>]

\* b := UUIDToBytes(u); BytesToUUID(b), as the round-trip test applies them
applyUUIDToBytes ==
  /\ call.fn = "UUIDToBytes" /\ ~call.done
  /\ call' = [call EXCEPT !.done = TRUE,
                          !.out = [bytes |-> UUIDToBytes(call.arg),
                                   back  |-> BytesToUUID(UUIDToBytes(call.arg))]]
  /\ UNCHANGED << mainVars, cb >>

applyBytesToUUID ==
  /\ call.fn = "BytesToUUID" /\ ~call.done
  /\ call' = [call EXCEPT !.done = TRUE, !.out = BytesToUUID(call.arg)]
  /\ UNCHANGED << mainVars, cb >>

applyFormatResults ==
  /\ call.fn = "FormatResults" /\ ~call.done
  /\ call' = [call EXCEPT !.done = TRUE, !.out = FormatResults(call.arg)]
  /\ UNCHANGED << mainVars, cb >>

\* cfg := DefaultConfig(); ValidateConfig(cfg)
applyDefaultConfig ==
  /\ call.fn = "DefaultConfig" /\ ~call.done
  /\ call' = [call EXCEPT !.done = TRUE,
                          !.out = [cfg |-> DefaultConfig,
                                   err |-> ValidateConfig(DefaultConfig)]]
  /\ UNCHANGED << mainVars, cb >>

\* ChunkBounds up to its loop: the guard and the make with the estimated
\* capacity, which panics when the capacity is negative
cbEnter ==
  /\ cb.pc = "call"
  /\ cb' = IF cb.total <= 0 \/ cb.chunk <= 0
           THEN [cb EXCEPT !.pc = "done", !.out = <<>>]
           ELSE IF GoDiv(WrapInt(cb.total + cb.chunk - 1), cb.chunk) < 0
                THEN [cb EXCEPT !.pc = "panic"]
                ELSE [cb EXCEPT !.pc = "loop", !.i = 0, !.out = <<>>]
  /\ UNCHANGED << mainVars, call >>

\* one test of the loop condition and, when it holds, one iteration; the
\* number of pairs is capped above the largest int
cbLoop ==
  /\ cb.pc = "loop"
  /\ cb.i < cb.total => Len(cb.out) <= IntMax
  /\ cb' = IF cb.i < cb.total
           THEN LET sum == WrapInt(cb.i + cb.chunk)
                    end == IF sum > cb.total THEN cb.total ELSE sum
                IN  [cb EXCEPT !.out = Append(cb.out, <<cb.i, end>>), !.i = sum]
           ELSE [cb EXCEPT !.pc = "done"]
  /\ UNCHANGED << mainVars, call >>

ChunkBounds == cbEnter \/ cbLoop

LibNext ==
  \/ applyUUIDToBytes \/ applyBytesToUUID \/ applyFormatResults
  \/ applyDefaultConfig \/ ChunkBounds

LibSpec == LibInit /\ [][LibNext]_vars

\* ------------------------------------------------------------------ claims
Min(a, b) == IF a < b THEN a ELSE b

\* RunAll has returned a nil error
RunAllOK ==
  \/ pc \in {"returned", "main_return"} /\ ret.err = NoError
  \/ pc = "exited" /\ exitCode = 0

\* the calls of the given operation on the table of variant k
CallsOf(k, op) ==
  { j \in 1..Len(calls) : /\ calls[j].op = op
                          /\ calls[j].db = Variants[k].conn
                          /\ calls[j].table = Variants[k].Table }

ExpectedOrder ==
  << <<"mysql", "bench_auto">>, <<"mysql", "bench_uuid_char">>,
     <<"mysql", "bench_uuid_bin">>, <<"postgres", "bench_auto">>,
     <<"postgres", "bench_uuid">> >>

InOrder(rs) ==
  \A j \in 1..Len(rs) :
    j <= Len(ExpectedOrder) /\ <<rs[j].DB, rs[j].Table>> = ExpectedOrder[j]

\* C1: every step leaves RunAll's result list alone or appends to it the
\* record of the next variant of the fixed order, and when RunAll returns a
\* nil error the returned list has exactly 5 records in that order.
C1_FixedOrder ==
  [][ /\ \/ results' = results
         \/ /\ Len(results') = Len(results) + 1
            /\ SubSeq(results', 1, Len(results)) = results
            /\ InOrder(results')
      /\ (pc' = "returned" /\ ret'.err = NoError)
           => (Len(ret'.results) = 5 /\ InOrder(ret'.results)) ]_vars

C1_Witness ==
  pc = "returned" /\ ret.err = NoError /\ Len(ret.results) = 5

\* C2: in a run (the configuration passed validation), for every variant the
\* number of point lookups issued is at most min(lookups, rows) and at most
\* the number of rows inserted into the variant's table, and so is the
\* PointLookupCount of every produced record.
C2_LookupBound ==
  ValidateConfig(cfg) = NoError =>
  /\ LET lookups == {j \in 1..Len(calls) : calls[j].op = "lookup"}
         inserts == {j \in 1..Len(calls) : calls[j].op = "insert" /\ calls[j].ok}
     IN
     \/ lookups = {}
     \/ \A k \in 1..Len(Variants) :
          LET done == Cardinality({j \in lookups :
                                     /\ calls[j].db = Variants[k].conn
                                     /\ calls[j].table = Variants[k].Table})
          IN
          \/ done = 0
          \/ /\ done <= Min(cfg.Lookups, cfg.Rows)
             /\ done <= Cardinality({j \in inserts :
                                       /\ calls[j].db = Variants[k].conn
                                       /\ calls[j].table = Variants[k].Table})
             /\ done <= Cardinality(tables[Tab(k)].keys)
  /\ \A j \in 1..Len(results) :
       /\ results[j].PointLookupCount <= Min(cfg.Lookups, cfg.Rows)
       /\ results[j].PointLookupCount
            <= Cardinality(tables[<<results[j].DB, results[j].Table>>].keys)

C2_Witness ==
  /\ cfg.Lookups < cfg.Rows
  /\ Len(results) = 5
  /\ \A k \in 1..Len(Variants) : Cardinality(CallsOf(k, "lookup")) = cfg.Lookups

\* C3: when RunAll returns a nil error every record has InsertRows = rows and
\* PointLookupCount = min(lookups, rows).
C3_ExactCounts ==
  RunAllOK =>
    \A j \in 1..Len(ret.results) :
      /\ ret.results[j].InsertRows = cfg.Rows
      /\ ret.results[j].PointLookupCount = Min(cfg.Lookups, cfg.Rows)

\* C4: a failed database call of RunAll is the last database call issued, and
\* RunAll has then returned its error with a nil result list.
C4_ErrorsTerminal ==
  \A j \in 1..Len(calls) :
    (~calls[j].ok /\ calls[j].op # "ping") =>
       /\ j = Len(calls)
       /\ pc \in {"returned", "exited"}
       /\ ret.err # NoError
       /\ ret.results = <<>>

\* C5: a process that ended with an error (from validation, open, ping or
\* RunAll) wrote nothing to standard output, wrote the error to standard error
\* and exited with status 1; standard output holds result lines only when all
\* 5 variants completed and RunAll returned their records.
C5_NoPartialResults ==
  /\ (ValidateConfig(cfg) # NoError \/ ret.err # NoError
        \/ (Len(calls) > 0 /\ calls[Len(calls)].op = "ping"
                           /\ ~calls[Len(calls)].ok))
       => (stdout = <<>> /\ (pc = "exited" => (exitCode = 1 /\ Len(stderr) = 1)))
  /\ exitCode = 1 => (stdout = <<>> /\ Len(stderr) = 1)
  /\ stdout # <<>> =>
       /\ Len(results) = 5
       /\ ret.err = NoError
       /\ stdout = FormatResults(results) \o <<"\n">>
  /\ (pc = "exited" /\ exitCode = 0) => stdout # <<>>

C5_Witness ==
  pc = "exited" /\ exitCode = 1 /\ Len(results) = 4 /\ ret.err # NoError

\* C6: when the process has ended, every handle main opened has been closed
\* exactly once.
C6_HandlesClosedOnce ==
  pc = "exited" =>
    /\ mysqlDB.state # "nil" => (mysqlDB.state = "closed" /\ mysqlDB.closes = 1)
    /\ pgDB.state # "nil" => (pgDB.state = "closed" /\ pgDB.closes = 1)

\* C7: ValidateConfig returns the nil error exactly when Rows > 0 and
\* Lookups > 0, whatever the connection fields hold, and one of its two
\* messages otherwise; main goes on past validation exactly in the first case.
C7_ValidateIff ==
  /\ ValidateConfig(cfg) = NoError <=> (cfg.Rows > 0 /\ cfg.Lookups > 0)
  /\ cfg.Rows <= 0 => ValidateConfig(cfg) = <<"rows must be > 0">>
  /\ (cfg.Rows > 0 /\ cfg.Lookups <= 0)
       => ValidateConfig(cfg) = <<"lookups must be > 0">>
  /\ pc # "validate" =>
       ((pc = "exited" /\ calls = <<>> /\ mysqlDB = NilHandle
           /\ stderr \in { << <<"rows must be > 0">> >>,
                           << <<"lookups must be > 0">> >> })
          <=> ~(cfg.Rows > 0 /\ cfg.Lookups > 0))

C7_Witness ==
  /\ pc = "exited"
  /\ cfg.Rows > 0 /\ cfg.Lookups = 0 /\ cfg.MySQLPort # DefaultConfig.MySQLPort
  /\ stderr = << <<"lookups must be > 0">> >>

\* C8: with a configuration that ValidateConfig rejects, no handle is opened,
\* no database call is issued and the process ends with status 1.
C8_ValidateBeforeConnect ==
  ValidateConfig(cfg) # NoError =>
    /\ pc \in {"validate", "exited"}
    /\ mysqlDB = NilHandle /\ pgDB = NilHandle
    /\ calls = <<>>
    /\ pc = "exited" => (exitCode = 1 /\ stdout = <<>>)

C8_Witness ==
  pc = "exited" /\ ValidateConfig(cfg) # NoError /\ exitCode = 1

\* C9: every schema-reset or benchmark call comes after a successful MySQL
\* ping followed by a successful PostgreSQL ping; after a failed ping no
\* further call is issued, RunAll is not entered, the message on standard
\* error names the engine and the exit status is 1.
C9_PingFirst ==
  /\ (\E j \in 1..Len(calls) : calls[j].op # "ping") =>
       /\ calls[1] = Call("mysql", "ping", "", <<>>, TRUE)
       /\ calls[2] = Call("postgres", "ping", "", <<>>, TRUE)
  /\ \A j \in 1..Len(calls) :
       (calls[j].op = "ping" /\ ~calls[j].ok) =>
          /\ j = Len(calls)
          /\ pc = "exited" /\ exitCode = 1
          /\ stmtIdx = 0 /\ v = 0
          /\ stderr = << <<(IF calls[j].db = "mysql" THEN "mysql ping failed:"
                            ELSE "postgres ping failed:")>> \o CallError >>

C9_Witness ==
  pc = "exited" /\ Len(calls) = 2 /\ calls[1].ok /\ ~calls[2].ok

\* C10: after a failed DROP or CREATE of the schema reset no further call is
\* issued (no later setup statement, no clean-up, no variant), and RunAll
\* returns the error wrapped with "mysql setup failed" or "postgres setup
\* failed" according to the engine of the failed statement.
C10_SetupFailure ==
  \A j \in 1..Len(calls) :
    (calls[j].op \in {"drop", "create"} /\ ~calls[j].ok) =>
       /\ j = Len(calls)
       /\ v = 0 /\ results = <<>>
       /\ pc \in {"returned", "exited"}
       /\ ret.results = <<>>
       /\ ret.err = Wrap((IF calls[j].db = "mysql" THEN "mysql setup failed"
                          ELSE "postgres setup failed"), CallError)

C10_Witness ==
  /\ pc = "returned"
  /\ calls[Len(calls)].db = "postgres" /\ calls[Len(calls)].op = "drop"
  /\ ~calls[Len(calls)].ok
  /\ tables[<<"mysql", "bench_auto">>].exists

\* C11: when the overall deadline has passed while the pings or RunAll were
\* running, the process ends with status 1, RunAll returned no result and
\* nothing was written to standard output.
C11_DeadlineAborts ==
  (pc = "exited" /\ ctxExpired) =>
     /\ exitCode = 1
     /\ stdout = <<>>
     /\ ret.results = <<>>

\* C12: for every identifier u, UUIDToBytes(u) has 16 bytes and
\* BytesToUUID(UUIDToBytes(u)) is u with no error.
C12_RoundTrip ==
  (call.fn = "UUIDToBytes" /\ call.done) =>
     /\ Len(call.out.bytes) = 16
     /\ call.out.back.u = call.arg
     /\ call.out.back.err = NoError

C12_Witness ==
  /\ call.fn = "UUIDToBytes" /\ call.done
  /\ call.arg[16] # 0 /\ call.arg[1] # call.arg[16]
  /\ call.out.back.u = call.arg

\* C13: BytesToUUID returns an error and the nil identifier for every byte
\* sequence whose length is not 16, and the identifier made of the bytes,
\* with no error, for every sequence of 16 bytes.
C13_LengthChecked ==
  (call.fn = "BytesToUUID" /\ call.done) =>
     IF Len(call.arg) = 16
     THEN call.out.err = NoError /\ call.out.u = call.arg
     ELSE call.out.err # NoError /\ call.out.u = NilUUID

C13_Witness ==
  /\ call.fn = "BytesToUUID" /\ call.done
  /\ Len(call.arg) = 17 /\ call.arg[1] # 0
  /\ call.out.err = <<"uuid bytes length must be 16, got 17">>
  /\ call.out.u = NilUUID

\* ceil(a / b) for a >= 0, b > 0
CeilDiv(a, b) == (a + b - 1) \div b

\* the pairs partition [0, total) into pieces of length chunk, the last
\* one possibly shorter
IsPartition(out, total, chunk) ==
  /\ Len(out) = CeilDiv(total, chunk)
  /\ Len(out) >= 1
  /\ out[1][1] = 0
  /\ out[Len(out)][2] = total
  /\ \A j \in 2..Len(out) : out[j][1] = out[j - 1][2]
  /\ \A j \in 1..(Len(out) - 1) : out[j][2] - out[j][1] = chunk
  /\ LET last == out[Len(out)][2] - out[Len(out)][1]
     IN  1 <= last /\ last <= chunk

\* C14: for every total > 0 and chunk > 0, ChunkBounds(total, chunk) returns
\* pairs that partition [0, total) as above, and ChunkBounds(10, 4) returns
\* [[0,4],[4,8],[8,10]].
C14_Partition ==
  (cb.total > 0 /\ cb.chunk > 0) =>
     /\ cb.pc # "panic"
     /\ \A j \in 1..Len(cb.out) :
          /\ cb.out[j][1] = (j - 1) * cb.chunk
          /\ cb.out[j][1] < cb.out[j][2] /\ cb.out[j][2] <= cb.total
     /\ cb.pc = "done" => IsPartition(cb.out, cb.total, cb.chunk)
     /\ (cb.pc = "done" /\ cb.total = 10 /\ cb.chunk = 4) =>
           cb.out = << <<0, 4>>, <<4, 8>>, <<8, 10>> >>

\* C15: ChunkBounds(total, chunk) returns an empty result when total <= 0 or
\* chunk <= 0, and it terminates for every input: its loop runs at most
\* total times, each pair starting after the one before it.
C15_EmptyAndTerminates ==
  /\ (cb.pc = "done" /\ (cb.total <= 0 \/ cb.chunk <= 0)) => cb.out = <<>>
  /\ cb.pc \in {"loop", "done"} =>
        /\ Len(cb.out) <= (IF cb.total > 0 THEN cb.total ELSE 0)
        /\ \A j \in 2..Len(cb.out) : cb.out[j - 1][1] < cb.out[j][1]

\* the pieces of a text joined into one string
RECURSIVE Join(_)
Join(text) == IF text = <<>> THEN "" ELSE Head(text) \o Join(Tail(text))

\* the lines of a text: the pieces between its newlines
RECURSIVE SplitLines(_, _)
SplitLines(text, line) ==
  IF text = <<>> THEN << line >>
  ELSE IF Head(text) = "\n" THEN << line >> \o SplitLines(Tail(text), <<>>)
  ELSE SplitLines(Tail(text), Append(line, Head(text)))

\* the seconds with 6 decimals, for the durations of Durations
Seconds6 ==
  [ns \in Durations |->
     CASE ns = 0          -> "0.000000"
       [] ns = 1499       -> "0.000001"
       [] ns = 10000000   -> "0.010000"
       [] ns = 450000000  -> "0.450000"
       [] ns = 1230000000 -> "1.230000"]

\* C16: FormatResults returns the banner line, the header line, then one
\* comma-delimited line per record in input order with the fields (engine,
\* table, row count, insert seconds, lookup count, lookup seconds, range
\* seconds), seconds with 6 decimals, and no newline at the end; the record
\* (mysql, bench_auto, 1000, 1.23, 500, 0.45, 0.01) gives the line
\* mysql,bench_auto,1000,1.230000,500,0.450000,0.010000.
C16_CSVLayout ==
  (call.fn = "FormatResults" /\ call.done) =>
     LET rs    == call.arg
         lines == SplitLines(call.out, <<>>)
     IN  /\ Len(lines) = 2 + Len(rs)
         /\ lines[1] = << "=== Benchmark Results ===" >>
         /\ lines[2] = << "db,table,insert_rows,insert_sec,point_lookups,point_sec,range_or_orderby_sec" >>
         /\ \A j \in 1..Len(rs) :
              /\ lines[2 + j] =
                   << rs[j].DB, ",", rs[j].Table, ",",
                      ToString(rs[j].InsertRows), ",",
                      Seconds6[rs[j].InsertSeconds], ",",
                      ToString(rs[j].PointLookupCount), ",",
                      Seconds6[rs[j].PointSeconds], ",",
                      Seconds6[rs[j].RangeSeconds] >>
              /\ rs[j] = TestResult =>
                   Join(lines[2 + j]) =
                     "mysql,bench_auto,1000,1.230000,500,0.450000,0.010000"
         /\ call.out[Len(call.out)] \notin {"\n", " ", ""}

C16_Witness ==
  /\ call.fn = "FormatResults" /\ call.done
  /\ Len(call.arg) = 2
  /\ call.arg[1].DB = "postgres" /\ call.arg[1].InsertSeconds = 1499
  /\ call.arg[2] = TestResult
  /\ Join(SplitLines(call.out, <<>>)[4]) =
       "mysql,bench_auto,1000,1.230000,500,0.450000,0.010000"

\* C17: DefaultConfig returns Rows = 100000, Lookups = 20000,
\* MySQLPort = 3306 and PGPort = 5432, and ValidateConfig accepts it.
C17_Defaults ==
  (call.fn = "DefaultConfig" /\ call.done) =>
     /\ call.out.cfg.Rows = 100000
     /\ call.out.cfg.Lookups = 20000
     /\ call.out.cfg.MySQLPort = 3306
     /\ call.out.cfg.PGPort = 5432
     /\ call.out.err = NoError

C17_Witness ==
  /\ call.fn = "DefaultConfig" /\ call.done
  /\ call.out.cfg.Rows > call.out.cfg.Lookups
  /\ call.out.err = <<>>

\* the statements of the variants
BenchOps ==
  {"prepare_insert", "insert", "select_ids", "fetch", "prepare_select",
   "lookup", "count", "scan"}

\* the phase of variant k a statement belongs to: 1 insert, 2 read-back of
\* the generated keys, 3 point lookups, 4 range / scan query
Phase(k, op) ==
  CASE op \in {"prepare_insert", "insert"} -> 1
    [] op = "select_ids"                   -> 2
    [] op = "fetch" -> IF ExpectedOrder[k][2] = "bench_auto" THEN 2 ELSE 4
    [] op \in {"prepare_select", "lookup"} -> 3
    [] op \in {"count", "scan"}            -> 4

\* the calls of the given operation on the given table of the given engine
CallsOn(tab, op) ==
  { j \in 1..Len(calls) : /\ calls[j].op = op
                          /\ <<calls[j].db, calls[j].table>> = tab }

\* C18: every statement of a variant goes to the connection of the variant's
\* engine (MySQL for the first three, PostgreSQL for the last two) and is
\* issued after the call before it has returned; within a variant the phases
\* follow each other (all rows inserted before the first lookup, all lookups
\* done before the range / scan query), and the first statement of a variant
\* follows the end of the range / scan phase of the variant before it.
C18_Sequential ==
  [][ (Len(calls') = Len(calls) + 1 /\ calls'[Len(calls')].op \in BenchOps) =>
        LET c == calls'[Len(calls')]
            p == calls[Len(calls)]
        IN  /\ v \in 1..Len(ExpectedOrder)
            /\ <<c.db, c.table>> = ExpectedOrder[v]
            /\ c.db = (IF v <= 3 THEN "mysql" ELSE "postgres")
            /\ Len(calls) >= 1
            /\ p.ok \/ p.op = "fetch"
            /\ IF p.op \in BenchOps /\ <<p.db, p.table>> = <<c.db, c.table>>
               THEN Phase(v, p.op) <= Phase(v, c.op)
               ELSE /\ c.op = "prepare_insert"
                    /\ IF v = 1
                       THEN p.op = "create" /\ p.db = "postgres"
                       ELSE /\ <<p.db, p.table>> = ExpectedOrder[v - 1]
                            /\ p.op \in {"count", "fetch"}
                            /\ Phase(v - 1, p.op) = 4
            /\ c.op = "lookup" =>
                 Cardinality({j \in CallsOn(ExpectedOrder[v], "insert") :
                                calls[j].ok}) = cfg.Rows
            /\ c.op \in {"count", "scan"} =>
                 /\ Cardinality(CallsOn(ExpectedOrder[v], "lookup")) = Len(sample)
                 /\ \A j \in CallsOn(ExpectedOrder[v], "lookup") : calls[j].ok
    ]_vars

C18_Witness ==
  /\ pc = "returned" /\ ret.err = NoError
  /\ cfg.Rows >= 2 /\ cfg.Lookups >= 2
  /\ \A k \in 1..Len(ExpectedOrder) :
       /\ Cardinality(CallsOn(ExpectedOrder[k], "insert")) = cfg.Rows
       /\ Cardinality(CallsOn(ExpectedOrder[k], "lookup")) >= 1
  /\ CallsOn(ExpectedOrder[1], "count") # {}
  /\ CallsOn(ExpectedOrder[5], "scan") # {}

\* the calls of the given operation on the given engine that succeeded
DoneOn(db, op) ==
  { j \in 1..Len(calls) : calls[j].db = db /\ calls[j].op = op /\ calls[j].ok }

\* the number of tables the schema reset of an engine drops and creates
TablesOf(db) == IF db = "mysql" THEN 3 ELSE 2

\* C19: no CREATE TABLE of an engine is issued before all its DROP TABLE IF
\* EXISTS have succeeded and no DROP after a CREATE; the PostgreSQL reset
\* starts after the MySQL reset is complete; the first statement of every
\* variant is issued after both resets are complete, on a table that exists
\* and holds no row.
C19_ResetFirst ==
  [][ Len(calls') = Len(calls) + 1 =>
        LET c == calls'[Len(calls')]
        IN  /\ c.op = "create" =>
                 Cardinality(DoneOn(c.db, "drop")) = TablesOf(c.db)
            /\ c.op = "drop" =>
                 \A j \in 1..Len(calls) :
                    ~(calls[j].db = c.db /\ calls[j].op = "create")
            /\ (c.op \in {"drop", "create"} /\ c.db = "postgres") =>
                 Cardinality(DoneOn("mysql", "create")) = TablesOf("mysql")
            /\ c.op \in BenchOps =>
                 \A db \in {"mysql", "postgres"} :
                    /\ Cardinality(DoneOn(db, "drop")) = TablesOf(db)
                    /\ Cardinality(DoneOn(db, "create")) = TablesOf(db)
            /\ c.op = "prepare_insert" =>
                 /\ tables[<<c.db, c.table>>] = EmptyTable
                 /\ <<c.db, c.table>> = ExpectedOrder[v]
                 /\ CallsOn(<<c.db, c.table>>, "insert") = {}
    ]_vars

C19_Witness ==
  /\ pc = "insert" /\ v = 4 /\ i = 0
  /\ calls[Len(calls)].op = "prepare_insert" /\ calls[Len(calls)].ok
  /\ calls[Len(calls)].db = "postgres"
  /\ tables[<<"postgres", "bench_auto">>] = EmptyTable
  /\ Cardinality(DoneOn("postgres", "create")) = 2
  /\ Cardinality(DoneOn("mysql", "drop")) = 3

\* C20: the insert phase of a variant issues its inserts one per ordinal
\* 0, 1, 2, ... below rows, in increasing order, with payload "p-<ordinal>";
\* a UUID variant generates one key for the row, not in the table before,
\* and records it at position ordinal of its key sequence, leaving the other
\* positions alone; when the phase ends without error exactly rows inserts
\* were issued, all succeeded, and the table holds exactly rows rows (for a
\* UUID variant the rows of the recorded keys).
C20_InsertPhase ==
  [][ /\ (Len(calls') = Len(calls) + 1 /\ calls'[Len(calls')].op = "insert") =>
           LET c   == calls'[Len(calls')]
               tab == <<c.db, c.table>>
               n   == Cardinality(CallsOn(tab, "insert"))
           IN  /\ tab = ExpectedOrder[v]
               /\ n < cfg.Rows
               /\ c.arg = <<n, "p-" \o ToString(n)>>
               /\ c.ok => Cardinality(tables'[tab].keys) = n + 1
               /\ c.table # "bench_auto" =>
                    /\ Len(ids') = cfg.Rows
                    /\ ids'[n + 1] \in UUIDs
                    /\ \A j \in 1..cfg.Rows : j # n + 1 => ids'[j] = ids[j]
                    /\ c.ok => /\ ids'[n + 1] \notin tables[tab].keys
                               /\ tables'[tab].keys =
                                    tables[tab].keys \cup {ids'[n + 1]}
      /\ (pc \in {"prepare_insert", "insert"}
            /\ pc' \in {"query_ids", "prepare_select"}) =>
           LET tab == ExpectedOrder[v]
               ins == { j \in 1..Len(calls') :
                          /\ calls'[j].op = "insert"
                          /\ <<calls'[j].db, calls'[j].table>> = tab }
           IN  /\ Cardinality(ins) = cfg.Rows
               /\ \A j \in ins : calls'[j].ok
               /\ Cardinality(tables'[tab].keys) = cfg.Rows
               /\ tab[2] # "bench_auto" =>
                    tables'[tab].keys = { ids'[j] : j \in 1..cfg.Rows }
    ]_vars

C20_Witness ==
  /\ pc = "prepare_select" /\ v = 3
  /\ cfg.Rows >= 2
  /\ Cardinality(CallsOn(ExpectedOrder[3], "insert")) = cfg.Rows
  /\ calls[Len(calls)].op = "insert"
  /\ calls[Len(calls)].arg = <<cfg.Rows - 1, "p-" \o ToString(cfg.Rows - 1)>>
  /\ ids[1] # ids[2]
  /\ tables[ExpectedOrder[3]].keys = {ids[1], ids[2]}

\* the first n elements of a sequence
Prefix(s, n) == SubSeq(s, 1, n)

\* C21: the sample cut before the lookups is the prefix of length
\* min(lookups, rows) of the variant's keys: for an auto-increment variant the
\* smallest keys of the table in ascending order, as read back; for a UUID
\* variant the generated keys in generation order, the table not being read
\* again; the lookups take the sampled keys one by one in sample order.
C21_SamplePrefix ==
  [][ Len(calls') = Len(calls) + 1 =>
        LET c   == calls'[Len(calls')]
            tab == <<c.db, c.table>>
            m   == Min(cfg.Lookups, cfg.Rows)
        IN  /\ c.op = "prepare_select" =>
                 /\ Len(sample') = m
                 /\ sample' = Prefix(ids, m)
                 /\ IF c.table = "bench_auto"
                    THEN sample' = Prefix(SortedSeq(tables[tab].keys), m)
                    ELSE /\ CallsOn(tab, "select_ids") = {}
                         /\ \A j \in 1..cfg.Rows : ids[j] \in tables[tab].keys
            /\ c.op = "lookup" =>
                 LET n == Cardinality(CallsOn(tab, "lookup"))
                 IN  /\ n < Len(sample)
                     /\ c.arg = <<n>>
                     /\ id' = sample[n + 1]
                     /\ sample' = sample
            /\ c.op \in {"count", "scan"} =>
                 Cardinality(CallsOn(tab, "lookup")) = Len(sample)
    ]_vars

\* C22: the COUNT query of an auto-increment variant, with n keys read back
\* in ascending order, has the bounds lo = ids[n div 4] and hi = ids[(3*n)
\* div 4] (positions counted from 0; both bounds 0 when n = 0) with lo <= hi,
\* it is the only COUNT query of the variant, and when n > 0 it counts
\* (3*n) div 4 - n div 4 + 1 rows.
C22_RangeBounds ==
  [][ /\ (Len(calls') = Len(calls) + 1 /\ calls'[Len(calls')].op = "count") =>
           LET c   == calls'[Len(calls')]
               tab == <<c.db, c.table>>
               n   == Len(ids)
               lo  == c.arg[1]
               hi  == c.arg[2]
           IN  /\ c.table = "bench_auto"
               /\ \A j \in 2..n : ids[j - 1] < ids[j]
               /\ CallsOn(tab, "count") = {}
               /\ lo <= hi
               /\ n = 0 => (lo = 0 /\ hi = 0)
               /\ n > 0 =>
                    /\ lo = ids[(n \div 4) + 1]
                    /\ hi = ids[((3 * n) \div 4) + 1]
                    /\ c.arg[3] = ((3 * n) \div 4) - (n \div 4) + 1
                    /\ c.arg[3] = Cardinality({x \in tables[tab].keys :
                                                 lo <= x /\ x <= hi})
      /\ (Len(results') = Len(results) + 1
            /\ results'[Len(results')].Table = "bench_auto") =>
           /\ calls'[Len(calls')].op = "count"
           /\ calls'[Len(calls')].ok
    ]_vars

C22_Witness ==
  /\ cfg.Rows = 4
  /\ Len(results) = 1
  /\ calls[Len(calls)].op = "count" /\ calls[Len(calls)].ok
  /\ calls[Len(calls)].arg = <<2, 4, 3>>

\* C23: a UUID variant issues one ORDER BY id LIMIT 10000 query, the only
\* one on its table, and returns after its read loop has read every row the
\* query delivers, min(rows, 10000) of them; a COUNT query goes to a
\* bench_auto table only and an ordered scan never does.
C23_OrderedScan ==
  [][ /\ Len(calls') = Len(calls) + 1 =>
           LET c   == calls'[Len(calls')]
               tab == <<c.db, c.table>>
           IN  /\ c.op = "scan" =>
                    /\ c.table # "bench_auto"
                    /\ CallsOn(tab, "scan") = {}
                    /\ CallsOn(tab, "count") = {}
               /\ c.op = "count" => c.table = "bench_auto"
      /\ (Len(results') = Len(results) + 1
            /\ results'[Len(results')].Table # "bench_auto") =>
           LET c   == calls'[Len(calls')]
               p   == calls[Len(calls)]
               tab == <<c.db, c.table>>
           IN  /\ p.op = "scan" /\ p.ok /\ <<p.db, p.table>> = tab
               /\ c.op = "fetch"
               /\ Min(Cardinality(tables[tab].keys), 10000) = Min(cfg.Rows, 10000)
               \* the loop has read all of them
               /\ c.ok
    ]_vars

\* C24: the key of every point lookup is the primary key of a row that is in
\* the variant's table, which exists, when the lookup is issued, and while a
\* variant runs no row leaves its table: no lookup can miss its row.
C24_LookupKeysPresent ==
  [][ /\ (Len(calls') = Len(calls) + 1 /\ calls'[Len(calls')].op = "lookup") =>
           LET c   == calls'[Len(calls')]
               tab == <<c.db, c.table>>
           IN  /\ tables[tab].exists
               /\ id' \in tables[tab].keys
               /\ id' # ZeroKey
               /\ \A j \in 1..Len(sample) : sample[j] \in tables[tab].keys
               /\ tables' = tables
      /\ (v \in 1..Len(ExpectedOrder) /\ v' = v) =>
           /\ tables[ExpectedOrder[v]].keys \subseteq tables'[ExpectedOrder[v]].keys
           /\ tables[ExpectedOrder[v]].exists => tables'[ExpectedOrder[v]].exists
    ]_vars

C24_Witness ==
  /\ pc = "lookup" /\ v = 5 /\ i = 1
  /\ cfg.Rows = 2 /\ Len(sample) = 2
  /\ calls[Len(calls)].op = "lookup" /\ calls[Len(calls)].ok
  /\ id = sample[1] /\ id \in tables[ExpectedOrder[5]].keys

\* C25: in a run (the configuration passed ValidateConfig) nothing is indexed
\* or sliced out of range and no panic ends the process: the sample is cut,
\* to its first lookups keys, only when 0 < lookups < len(sample); an insert
\* of a UUID variant and a lookup use a position below the length of ids and
\* of the sample; the bounds of the COUNT query are read from ids only when
\* it has n > 0 keys, at the positions n div 4 and (3*n) div 4, both below n.
C25_InRange ==
  [][ /\ exitCode' # 2
      /\ pc # "validate" => ValidateConfig(cfg) = NoError
      /\ Len(calls') = Len(calls) + 1 =>
           LET c == calls'[Len(calls')]
               n == Len(ids)
           IN  /\ c.op = "prepare_select" =>
                    IF sample' # ids
                    THEN /\ 0 < cfg.Lookups /\ cfg.Lookups < n
                         /\ sample' = Prefix(ids, cfg.Lookups)
                    ELSE n <= cfg.Lookups
               /\ (c.op = "insert" /\ c.table # "bench_auto") =>
                    0 <= i /\ i < n
               /\ c.op = "lookup" => 0 <= i /\ i < Len(sample)
               /\ c.op = "count" =>
                    IF n > 0
                    THEN /\ 0 <= n \div 4 /\ n \div 4 < n
                         /\ 0 <= (3 * n) \div 4 /\ (3 * n) \div 4 < n
                         /\ c.arg[1] = ids[(n \div 4) + 1]
                         /\ c.arg[2] = ids[((3 * n) \div 4) + 1]
                    ELSE c.arg[1] = 0 /\ c.arg[2] = 0
    ]_vars

C25_Witness ==
  /\ pc = "lookup" /\ v = 1 /\ i = 0
  /\ cfg.Rows = 4 /\ cfg.Lookups = 2
  /\ Len(ids) = 4 /\ Len(sample) = 2
  /\ calls[Len(calls)].op = "prepare_select" /\ calls[Len(calls)].ok

\* the process has ended after printing the records of all 5 variants
PrintedAll ==
  /\ exitCode = 0
  /\ Len(ret.results) = 5
  /\ stdout = FormatResults(ret.results) \o <<"\n">>

\* the process has ended with an error
ErrorExit ==
  /\ exitCode = 1
  /\ stdout = <<>>
  /\ stderr # <<>>

\* C26: every run with rows > 0 and lookups > 0 in which every call returns
\* ends, either with the records of all 5 variants printed or with an error
\* exit, and an insert or a lookup is issued only while its variant has
\* issued fewer than rows inserts, or fewer than min(lookups, rows) lookups.
C26_Terminates ==
  /\ (ValidateConfig(cfg) = NoError)
       => <>(pc = "exited" /\ (PrintedAll \/ ErrorExit))
  /\ [][ (ValidateConfig(cfg) = NoError /\ Len(calls') = Len(calls) + 1) =>
           LET c   == calls'[Len(calls')]
               tab == <<c.db, c.table>>
           IN  /\ c.op = "insert" =>
                    Cardinality(CallsOn(tab, "insert")) < cfg.Rows
               /\ c.op = "lookup" =>
                    Cardinality(CallsOn(tab, "lookup"))
                      < Min(cfg.Lookups, cfg.Rows) ]_vars

C26_Witness ==
  /\ pc = "exited" /\ PrintedAll
  /\ cfg.Rows = 1 /\ cfg.Lookups = 2
  /\ \A k \in 1..Len(ExpectedOrder) :
       /\ Cardinality(CallsOn(ExpectedOrder[k], "insert")) = 1
       /\ Cardinality(CallsOn(ExpectedOrder[k], "lookup")) = 1

====
